---- MODULE Spec2Model ----
(***************************************************************************)
(* A model of eagle/observe/base/meta.py: the Augmentor base class.        *)
(*                                                                         *)
(* Random-state objects live in a heap `rs` (object id -> value); object 1 *)
(* is the process-wide default generator.  Augmentor instances live in a   *)
(* heap `augs` (instance id -> fields).  Every public method is one action *)
(* that runs the whole method body and appends a record of the call (its   *)
(* arguments, the state before, what it returned or raised) to `hist`.     *)
(* augment_batches is a generator: `batches` is its argument, `bobjs` the  *)
(* heap of Batch objects, `gen` the generator's position and locals,       *)
(* `loader` and `bg` the BatchLoader and the BackgroundAugmentor it        *)
(* creates, and `out` the results the consumer has received.               *)
(***************************************************************************)
EXTENDS Integers, Sequences, FiniteSets, TLC

VARIABLES rs, augs, hist, batches, bobjs, gen, loader, bg, out

vars == <<rs, augs, hist, batches, bobjs, gen, loader, bg, out>>

\* the state of an augment_batches call and of its background pipeline
pipeVars == <<batches, bobjs, gen, loader, bg, out>>

----------------------------------------------------------------------------
(* Bounds of the model *)

\* number of distinct values a random-state object can take
RsMod == 3
\* number of augmentors the caller has constructed before to_deterministic
NAugs == 2
\* largest n passed to to_deterministic
MaxN == 2
\* number of public calls recorded in one behaviour
MaxCalls == 2
\* number of augmentors in the tree that reseed walks
NTree == 3
\* largest number of images in a list of images
MaxImgs == 2
\* largest axis count of an image or an array of images
MaxNdim == 4
\* largest number of KeyPointsOnImage in one call
MaxKpImgs == 1
\* largest coordinate of an input keypoint or box corner
MaxCoord == 1
\* largest number of boxes on one image
MaxBoxes == 2
\* largest number of BoundingBoxesOnImage in one call
MaxBoxImgs == 1
\* number of augment_bounding_boxes calls in one behaviour
MaxBoxCalls == 1
\* largest number of batches handed to augment_batches
MaxBatches == 2
\* capacity of the queues of the background pipeline
QueueSize == 1
\* number of get_batch calls the holder of a pipeline makes
MaxGets == 2
\* number of terminate calls the holder of a pipeline makes
MaxTerminates == 2

\* upper end of randint(0, 10 ** 6, 1) in reseed
SeedRange == 1000000

RsVals == 0..(RsMod - 1)
Seeds == 0..(RsMod - 1)

----------------------------------------------------------------------------
(* eagle.utils: the random-state utility and do_assert *)

\* the object id of the process-wide default generator
current_random_state == 1

\* np.random.RandomState(seed): the state a seed initialises a generator to
SeedVal(seed) == seed % RsMod

\* new_random_state(seed): a fresh generator object; `h` is the heap, `v` the
\* value the new generator starts from
new_random_state(h, v) == Append(h, v)

\* the id the next new_random_state on heap h returns
NewId(h) == Len(h) + 1

\* copy_random_state(gen): a value-identical independent copy, which the
\* callee may advance without touching the heap: it is handed over by value
copy_random_state(h, id) == h[id]

\* drawing once from a generator advances its state
Forward(v) == (v + 1) % RsMod

\* forward_random_state(gen): advance the generator's internal state
forward_random_state(h, id) == [h EXCEPT ![id] = Forward(@)]

\* random_state.randint(0, 10 ** 6, 1)[0]: the number drawn from a generator
\* whose state is v
RandInt(v) == (v * 7 + 3) % SeedRange

\* do_assert(condition): raises AssertionError unless the condition holds
do_assert(cond) == IF cond THEN "ok" ELSE "AssertionError"

----------------------------------------------------------------------------
(* Augmentor.__init__ and the augmentor trees the caller builds *)

\* the concrete transformations plugged into the core
XForms == {"noop", "shift", "mirror", "transpose"}

NoneArg == [kind |-> "None"]
IntArg(s) == [kind |-> "int", seed |-> s]
InstArg(i) == [kind |-> "instance", id |-> i]

\* __init__(deterministic, random_state): st is the heap pair, `fresh` the
\* value an unseeded new_random_state() starts from
Construct(st, det, arg, fresh, xf, kids) ==
    LET h == st.rs
        h2 == IF arg.kind = "None"
                THEN IF det THEN new_random_state(h, fresh) ELSE h
                ELSE IF arg.kind = "instance" THEN h
                ELSE new_random_state(h, SeedVal(arg.seed))
        id == IF arg.kind = "None"
                THEN IF det THEN NewId(h) ELSE current_random_state
                ELSE IF arg.kind = "instance" THEN arg.id
                ELSE NewId(h)
    IN [rs |-> h2,
        augs |-> Append(st.augs,
                   [deterministic |-> det, random_state |-> id,
                    activated |-> TRUE, xform |-> xf, children |-> kids])]

\* get_children_lists of a composite: node i of the tree owns nodes 2i, 2i+1
ChildrenOf(i, n) ==
    IF 2 * i + 1 <= n THEN <<2 * i, 2 * i + 1>>
    ELSE IF 2 * i <= n THEN <<2 * i>> ELSE <<>>

\* what the caller passes to one constructor: the deterministic flag, the
\* random_state argument and, where the constructor calls new_random_state()
\* without a seed, the value that generator starts from
CtorCalls(args) ==
    {c \in [det : BOOLEAN, arg : args, fresh : RsVals] :
        (c.det /\ c.arg.kind = "None") \/ c.fresh = 0}

RECURSIVE BuildTree(_, _, _, _, _)
BuildTree(st, i, n, ctor, xf) ==
    IF i > n THEN st
    ELSE BuildTree(Construct(st, ctor[i].det, ctor[i].arg, ctor[i].fresh, xf,
                             ChildrenOf(i, n)),
                   i + 1, n, ctor, xf)

\* the random_state arguments of the constructor: None or an int seed
CtorArgs == {NoneArg} \cup {IntArg(s) : s \in Seeds}

\* n augmentors of one concrete class out of xfs, as their constructors leave
\* them, each then activated or not (acts) through its public attribute
InitHeap(n, args, xfs, acts) ==
    \E g \in RsVals, ctor \in [1..n -> CtorCalls(args)], xf \in xfs,
       act \in [1..n -> acts] :
        LET st == BuildTree([rs |-> <<g>>, augs |-> <<>>], 1, n, ctor, xf)
        IN /\ rs = st.rs
           /\ augs = [i \in 1..n |-> [st.augs[i] EXCEPT !.activated = act[i]]]

\* no augment_batches call is under way
NoPipeline ==
    /\ batches = [islist |-> TRUE, items |-> <<>>]
    /\ bobjs = <<>>
    /\ gen = [pc |-> "none"]
    /\ loader = [created |-> FALSE]
    /\ bg = [created |-> FALSE]
    /\ out = <<>>

Last == hist[Len(hist)]
Called(op) == Len(hist) > 0 /\ Last.op = op

----------------------------------------------------------------------------
(* to_deterministic, copy *)

\* copy(): copy.copy(self), a new instance with the same field values
copy(st, self) == [st EXCEPT !.augs = Append(@, st.augs[self])]

\* a _to_deterministic that keeps the receiver's random-state object
ToDetSharedState(st, self, v) ==
    LET c == copy(st, self)
    IN [c EXCEPT !.augs[Len(c.augs)].deterministic = TRUE]

\* _to_deterministic(): v is the value the fresh generator starts from
_to_deterministic(st, self, v) ==
    LET c == copy(st, self)
        aug == Len(c.augs)
        h == new_random_state(c.rs, v)
    IN [rs |-> h,
        augs |-> [c.augs EXCEPT ![aug].random_state = Len(h),
                                ![aug].deterministic = TRUE]]

RECURSIVE ToDetList(_, _, _, _, _)
\* [self._to_deterministic() for _ in range(n)], from the k-th element on
ToDetList(st, self, n, vals, k) ==
    IF k > n THEN [st |-> st, ids |-> <<>>]
    ELSE LET s1 == _to_deterministic(st, self, vals[k])
             rest == ToDetList(s1, self, n, vals, k + 1)
         IN [st |-> rest.st, ids |-> <<Len(s1.augs)>> \o rest.ids]

\* to_deterministic(n): nArg.given is FALSE when n is omitted (None)
to_deterministic(st, self, nArg, vals) ==
    IF do_assert(~nArg.given \/ nArg.n >= 1) # "ok"
    THEN [st |-> st, status |-> "AssertionError", kind |-> "none", ids |-> <<>>]
    ELSE IF ~nArg.given
    THEN LET r == ToDetList(st, self, 1, vals, 1)
         IN [st |-> r.st, status |-> "ok", kind |-> "single", ids |-> <<r.ids[1]>>]
    ELSE LET r == ToDetList(st, self, nArg.n, vals, 1)
         IN [st |-> r.st, status |-> "ok", kind |-> "list", ids |-> r.ids]

NArgs == {[given |-> FALSE, n |-> 0]} \cup {[given |-> TRUE, n |-> n] : n \in (0 - 1)..MaxN}

\* the number of clones a call makes, each with a generator of its own
Clones(nArg) == IF ~nArg.given THEN 1 ELSE IF nArg.n >= 1 THEN nArg.n ELSE 0

\* one to_deterministic call on any of the caller's augmentors
ToDeterministic ==
    /\ hist = <<>>
    /\ \E self \in DOMAIN augs, nArg \in NArgs :
       \E vals \in [1..Clones(nArg) -> RsVals] :
        LET pre == [rs |-> rs, augs |-> augs]
            r == to_deterministic(pre, self, nArg, vals)
        IN /\ rs' = r.st.rs
           /\ augs' = r.st.augs
           /\ hist' = Append(hist, [op |-> "to_deterministic", self |-> self,
                                    n |-> nArg, pre |-> pre, status |-> r.status,
                                    kind |-> r.kind, ids |-> r.ids])
           /\ UNCHANGED pipeVars

\* C6: to_deterministic(n) with n >= 1 returns a list of exactly n new
\* instances, to_deterministic() a single one; every returned instance is
\* deterministic and owns a fresh random-state object that is neither the
\* receiver's nor another returned instance's; the receiver's flag, its
\* random-state object and that object's value are unchanged; with n < 1 the
\* call raises AssertionError and changes nothing.
C6_ToDeterministic ==
    Called("to_deterministic") =>
        LET c == Last
            me == c.pre.augs[c.self]
        IN /\ (c.n.given /\ c.n.n < 1) =>
                (c.status = "AssertionError" /\ rs = c.pre.rs /\ augs = c.pre.augs)
           /\ (c.n.given /\ c.n.n >= 1) =>
                (c.status = "ok" /\ c.kind = "list" /\ Len(c.ids) = c.n.n)
           /\ ~c.n.given => (c.status = "ok" /\ c.kind = "single" /\ Len(c.ids) = 1)
           /\ \A k \in DOMAIN c.ids :
                /\ c.ids[k] \in DOMAIN augs \ DOMAIN c.pre.augs
                /\ augs[c.ids[k]].deterministic
                /\ augs[c.ids[k]].random_state \in DOMAIN rs \ DOMAIN c.pre.rs
                /\ augs[c.ids[k]].random_state # augs[c.self].random_state
                /\ \A j \in DOMAIN c.ids :
                     j # k => /\ c.ids[j] # c.ids[k]
                              /\ augs[c.ids[j]].random_state # augs[c.ids[k]].random_state
           /\ augs[c.self].deterministic = me.deterministic
           /\ augs[c.self].random_state = me.random_state
           /\ rs[me.random_state] = c.pre.rs[me.random_state]

\* to_deterministic(2) has returned two clones of a non-deterministic receiver
C6_Witness ==
    /\ Called("to_deterministic")
    /\ Last.n.given /\ Last.n.n = 2 /\ Last.status = "ok" /\ Len(Last.ids) = 2
    /\ ~Last.pre.augs[Last.self].deterministic

InitDet == InitHeap(NAugs, CtorArgs, {"noop"}, {TRUE}) /\ hist = <<>> /\ NoPipeline

NextDet == ToDeterministic

SpecDet == InitDet /\ [][NextDet]_vars

----------------------------------------------------------------------------
(* reseed *)

\* the deterministic_too arguments: two booleans and one value that is no bool
DtArgs == {[isbool |-> TRUE, val |-> TRUE], [isbool |-> TRUE, val |-> FALSE],
           [isbool |-> FALSE, val |-> TRUE]}

\* the generator reseed draws its seeds from, and the heap once it exists
ReseedGen(h, arg) ==
    IF arg.kind = "None" THEN [rs |-> h, id |-> current_random_state]
    ELSE IF arg.kind = "instance" THEN [rs |-> h, id |-> arg.id]
    ELSE LET h2 == new_random_state(h, SeedVal(arg.seed))
         IN [rs |-> h2, id |-> Len(h2)]

\* a reseed step that also reseeds a deterministic instance
ReseedSelfAlways(st, self, g, dt) ==
    LET seed == RandInt(st.rs[g])
        h1 == [st.rs EXCEPT ![g] = Forward(@)]
        h2 == new_random_state(h1, SeedVal(seed))
    IN [rs |-> h2, augs |-> [st.augs EXCEPT ![self].random_state = Len(h2)]]

\* lines 493-495: draw a seed from generator g and give self a new generator
ReseedSelf(st, self, g, dt) ==
    IF ~st.augs[self].deterministic \/ dt
    THEN LET seed == RandInt(st.rs[g])
             h1 == [st.rs EXCEPT ![g] = Forward(@)]
             h2 == new_random_state(h1, SeedVal(seed))
         IN [rs |-> h2, augs |-> [st.augs EXCEPT ![self].random_state = Len(h2)]]
    ELSE st

RECURSIVE ReseedFrom(_, _, _, _), ReseedChildren(_, _, _, _, _)
\* the body of reseed once the generator is an instance: self, then every child
ReseedFrom(st, self, g, dt) ==
    ReseedChildren(ReseedSelf(st, self, g, dt), st.augs[self].children, 1, g, dt)

\* lines 497-500: the loop over the children, from the k-th on
ReseedChildren(st, kids, k, g, dt) ==
    IF k > Len(kids) THEN st
    ELSE ReseedChildren(ReseedFrom(st, kids[k], g, dt), kids, k + 1, g, dt)

\* reseed(random_state, deterministic_too)
reseed(st, self, arg, dt) ==
    IF do_assert(dt.isbool) # "ok" THEN [st |-> st, status |-> "AssertionError", gen |-> 0]
    ELSE LET g == ReseedGen(st.rs, arg)
         IN [st |-> ReseedFrom([rs |-> g.rs, augs |-> st.augs], self, g.id, dt.val),
             status |-> "ok", gen |-> g.id]

\* one reseed call on any augmentor of the tree, with any generator argument
Reseed ==
    /\ hist = <<>>
    /\ \E self \in DOMAIN augs, dt \in DtArgs,
          arg \in {NoneArg} \cup {IntArg(s) : s \in Seeds} \cup {InstArg(i) : i \in DOMAIN rs} :
        LET pre == [rs |-> rs, augs |-> augs]
            r == reseed(pre, self, arg, dt)
        IN /\ rs' = r.st.rs
           /\ augs' = r.st.augs
           /\ hist' = Append(hist, [op |-> "reseed", self |-> self, arg |-> arg,
                                    dt |-> dt, pre |-> pre, status |-> r.status,
                                    gen |-> r.gen])
           /\ UNCHANGED pipeVars

RECURSIVE Subtree(_, _)
\* self and every descendant of it
Subtree(as, a) ==
    {a} \cup UNION {Subtree(as, as[a].children[k]) : k \in DOMAIN as[a].children}

\* the augmentors of the tree that the call must leave alone
Skipped(c) == {a \in Subtree(c.pre.augs, c.self) :
                 c.pre.augs[a].deterministic /\ ~c.dt.val}

\* a reseeded augmentor owns a generator object that did not exist before
Reseeded(c, a) == augs[a].random_state \in DOMAIN rs \ DOMAIN c.pre.rs

\* C7 as stated: after reseed, every skipped (deterministic) augmentor of the
\* tree has the same random-state as before, the object and its value, and
\* every other augmentor of the tree has a freshly created one.
C7_AsStated ==
    (Called("reseed") /\ Last.status = "ok") =>
        \A a \in Subtree(Last.pre.augs, Last.self) :
            IF a \in Skipped(Last)
            THEN /\ augs[a].random_state = Last.pre.augs[a].random_state
                 /\ rs[augs[a].random_state] = Last.pre.rs[augs[a].random_state]
            ELSE Reseeded(Last, a)

\* C7 (amended): after reseed, every skipped (deterministic) augmentor of the
\* tree, root or descendant, holds the same random-state object as before,
\* and that object's value is unchanged unless it is the generator the seeds
\* were drawn from and some augmentor was reseeded; every other augmentor of
\* the tree, also below a skipped one, holds a generator object created by
\* the call; with deterministic_too=True none is skipped.
C7_Reseed ==
    (Called("reseed") /\ Last.status = "ok") =>
        LET c == Last
            tree == Subtree(c.pre.augs, c.self)
        IN /\ c.dt.val => Skipped(c) = {}
           /\ \A a \in tree :
                IF a \in Skipped(c)
                THEN /\ augs[a].random_state = c.pre.augs[a].random_state
                     /\ (augs[a].random_state # c.gen \/ tree = Skipped(c)) =>
                          rs[augs[a].random_state] = c.pre.rs[augs[a].random_state]
                ELSE Reseeded(c, a)
           /\ \A a \in DOMAIN augs \ tree : augs[a] = c.pre.augs[a]

\* reseed(deterministic_too=False) has skipped a deterministic root and
\* reseeded a non-deterministic child of it
C7_Witness ==
    /\ Called("reseed") /\ Last.status = "ok" /\ ~Last.dt.val
    /\ Last.self \in Skipped(Last)
    /\ \E k \in DOMAIN augs[Last.self].children :
         LET a == augs[Last.self].children[k]
         IN ~Last.pre.augs[a].deterministic /\ Reseeded(Last, a)

InitReseed == InitHeap(NTree, {NoneArg, IntArg(0)}, {"noop"}, {TRUE}) /\ hist = <<>> /\ NoPipeline

NextReseed == Reseed

SpecReseed == InitReseed /\ [][NextReseed]_vars

----------------------------------------------------------------------------
(* The collaborators of an augmentation call: hooks and extension points *)

\* what a call returns when it falls off its end or has nothing to return
NoneVal == [kind |-> "None"]

\* the hook objects a caller can pass: None (the defaults), hooks whose
\* activator answers False or True whatever the default, and hooks one of
\* whose three callbacks raises
HookSet == {"default", "off", "on", "pre_raises", "act_raises", "post_raises"}

\* hooks.preprocess(data): the data handed on, or the exception raised
HookPreprocess(hk, data) ==
    IF hk = "pre_raises" THEN [status |-> "HookError", data |-> data]
    ELSE [status |-> "ok", data |-> data]

\* hooks.is_activated(data, default): the activator's answer
HookIsActivated(hk, default) ==
    IF hk = "act_raises" THEN [status |-> "HookError", val |-> FALSE]
    ELSE IF hk = "off" THEN [status |-> "ok", val |-> FALSE]
    ELSE IF hk = "on" THEN [status |-> "ok", val |-> TRUE]
    ELSE [status |-> "ok", val |-> default]

\* hooks.postprocess(data)
HookPostprocess(hk, data) ==
    IF hk = "post_raises" THEN [status |-> "HookError", data |-> data]
    ELSE [status |-> "ok", data |-> data]

\* a concrete transformation moving one keypoint, given the value drawn
MoveKeypoint(xf, kp, shape, v) ==
    IF xf = "shift" THEN <<kp[1] + v, kp[2]>>
    ELSE IF xf = "mirror" THEN (IF v % 2 = 1 THEN <<shape[2] - kp[1], kp[2]>> ELSE kp)
    ELSE IF xf = "transpose" THEN <<kp[2], kp[1]>>
    ELSE kp

\* a concrete transformation applied to the data of one call
ApplyXForm(xf, data, v) ==
    IF data.kind = "kps"
    THEN [kind |-> "kps", copied |-> data.copied,
          items |-> [i \in DOMAIN data.items |->
                      [keypoints |-> [k \in DOMAIN data.items[i].keypoints |->
                                        MoveKeypoint(xf, data.items[i].keypoints[k],
                                                     data.items[i].shape, v)],
                       shape |-> data.items[i].shape]]]
    ELSE [data EXCEPT !.drawn = Append(@, v)]

\* the record of one hook call: which hook, the data it was handed and, for
\* is_activated, the default it was handed
HookCall(name, data) == [hook |-> name, data |-> data]
IsActivatedCall(data, default) == [hook |-> "is_activated", data |-> data,
                                   default |-> default]

NoArgs == [given |-> FALSE]
FullArgs(data, v) == [given |-> TRUE, data |-> data, random_state |-> v]

\* A call of an extension point of the concrete class (lines 258-298 and
\* 384-387 declare both with four required parameters): a call that binds
\* none of them raises TypeError before the body runs; the body of a class
\* that does not override it raises NotImplementedError.
ExtCall(fn, xf, args) ==
    IF ~args.given THEN [status |-> "TypeError", ret |-> NoneVal, calls |-> <<>>]
    ELSE LET call == [fn |-> fn, random_state |-> args.random_state, data |-> args.data]
         IN IF xf = "abstract"
            THEN [status |-> "NotImplementedError", ret |-> NoneVal, calls |-> <<call>>]
            ELSE [status |-> "ok", ret |-> ApplyXForm(xf, args.data, args.random_state),
                  calls |-> <<call>>]

----------------------------------------------------------------------------
(* augment_images, augment_image *)

\* images as the core sees them: an array of some axis count holding n
\* images, a list of per-image axis counts, or a value that is neither
ArrayIn(d, n) == [kind |-> "array", ndim |-> d, n |-> n, drawn |-> <<>>]
ListIn(items) == [kind |-> "list", items |-> items, drawn |-> <<>>]
OtherIn == [kind |-> "other"]

\* len(images)
LenOf(data) == IF data.kind = "array" THEN data.n ELSE Len(data.items)

\* lines 209-249: the validation of the input
ImagesValid(images) ==
    IF images.kind = "array" THEN do_assert(images.ndim \in {3, 4})
    ELSE IF images.kind = "list"
    THEN IF Len(images.items) = 0 THEN "ok"
         ELSE do_assert(\A k \in DOMAIN images.items : images.items[k] \in {2, 3})
    ELSE "Exception"

\* lines 215-246: images_copy. Line 227 compares and assigns nothing, so an
\* array keeps its axes; the loop of lines 240-246 appends no image_copy to
\* images_copy, which stays empty.
ImagesCopy(images) ==
    IF images.kind = "array" THEN images ELSE ListIn(<<>>)

\* lines 211, 228, 231-246: input_added_axis
InputAddedAxis(images) ==
    IF images.kind = "array" THEN <<images.ndim = 3>>
    ELSE [k \in DOMAIN images.items |-> images.items[k] = 2]

\* augment_images(images): the method has no return statement, and its call
\* of the extension point on line 256 passes no argument
augment_images(st, self, images) ==
    LET valid == ImagesValid(images)
        hk == "default"
        pre == HookPreprocess(hk, ImagesCopy(images))
        act == HookIsActivated(hk, st.augs[self].activated)
        ext == ExtCall("_augment_images", st.augs[self].xform, NoArgs)
        hooked == <<HookCall("preprocess", ImagesCopy(images)),
                    IsActivatedCall(pre.data, st.augs[self].activated)>>
    IN IF valid # "ok"
       THEN [st |-> st, status |-> valid, ret |-> NoneVal, calls |-> <<>>, hooks |-> <<>>]
       ELSE IF act.val /\ LenOf(images) > 0
       THEN [st |-> st, status |-> ext.status, ret |-> NoneVal, calls |-> ext.calls,
             hooks |-> hooked]
       ELSE [st |-> st, status |-> "ok", ret |-> NoneVal, calls |-> <<>>,
             hooks |-> hooked]

\* augment_image(image): image is the axis count of the one image
augment_image(st, self, image) ==
    IF do_assert(image \in {2, 3}) # "ok"
    THEN [st |-> st, status |-> "AssertionError", ret |-> NoneVal, calls |-> <<>>,
          hooks |-> <<>>]
    ELSE LET r == augment_images(st, self, ListIn(<<image>>))
         IN IF r.status # "ok" THEN r
            ELSE IF r.ret.kind = "None" THEN [r EXCEPT !.status = "TypeError"]
            ELSE [r EXCEPT !.ret = [kind |-> "image", ndim |-> r.ret.items[1]]]

----------------------------------------------------------------------------
(* augment_keypoints *)

\* keypoints as the core sees them: a list of KeyPointsOnImage, a list that
\* holds something else, or a value that is not iterable
KpsIn(items) == [kind |-> "kps", items |-> items, copied |-> FALSE]

\* a call that works on the caller's own objects
KpsNoCopy(kin) == kin

\* lines 357-358: kps_on_img.deepcopy() for each element, objects of the
\* core that are equal in value to the caller's
KpsDeepcopy(kin) == [kin EXCEPT !.copied = TRUE]
BadListIn == [kind |-> "badlist"]

\* lines 354-356: the two assertions on the input
KeypointsValid(kin) ==
    IF do_assert(kin.kind # "other") # "ok" THEN "AssertionError"
    ELSE do_assert(kin.kind = "kps")

\* an advance of the process-wide default generator instead of the instance's
AdvanceDefaultState(st, a) ==
    [st EXCEPT !.rs = forward_random_state(st.rs, current_random_state)]

\* line 370: eu.forward_random_state(self.random_state)
AdvanceState(st, a) == [st EXCEPT !.rs = forward_random_state(st.rs, a.random_state)]

\* a call that never puts the snapshot back
RestoreStateNever(st, a, state_orig) == st

\* lines 379-380: a deterministic instance gets its snapshot back
RestoreState(st, a, state_orig) ==
    IF a.deterministic THEN [st EXCEPT !.rs[a.random_state] = state_orig] ELSE st

\* augment_keypoints(keypoints_on_images, hooks=hk). Lines 365-369 call
\* self._augment_images with the keypoints.
augment_keypoints(st, self, kin, hk) ==
    LET a == st.augs[self]
        state_orig == st.rs[a.random_state]
        valid == KeypointsValid(kin)
        kps_on_imgs_copy == KpsDeepcopy(kin)
        pre == HookPreprocess(hk, kps_on_imgs_copy)
        act == HookIsActivated(hk, a.activated)
        run == act.val /\ Len(pre.data.items) > 0
        ext == ExtCall("_augment_images", a.xform,
                       FullArgs(pre.data, copy_random_state(st.rs, a.random_state)))
        st1 == IF run THEN AdvanceState(st, a) ELSE st
        post == HookPostprocess(hk, IF run THEN ext.ret ELSE pre.data)
        st2 == RestoreState(st1, a, state_orig)
        h1 == <<HookCall("preprocess", kps_on_imgs_copy)>>
        h2 == Append(h1, IsActivatedCall(pre.data, a.activated))
        h3 == Append(h2, HookCall("postprocess", IF run THEN ext.ret ELSE pre.data))
        raised(status, hooks, calls, s) ==
            [st |-> s, status |-> status, ret |-> NoneVal, calls |-> calls, hooks |-> hooks]
    IN IF valid # "ok" THEN raised(valid, <<>>, <<>>, st)
       ELSE IF pre.status # "ok" THEN raised(pre.status, h1, <<>>, st)
       ELSE IF act.status # "ok" THEN raised(act.status, h2, <<>>, st)
       ELSE IF run /\ ext.status # "ok" THEN raised(ext.status, h2, ext.calls, st)
       ELSE IF post.status # "ok"
       THEN raised(post.status, h3, IF run THEN ext.calls ELSE <<>>, st1)
       ELSE [st |-> st2, status |-> "ok", ret |-> post.data,
             calls |-> IF run THEN ext.calls ELSE <<>>, hooks |-> h3]

----------------------------------------------------------------------------
(* The calls a caller makes on one augmentor *)

\* all sequences over S of length at most n
RECURSIVE SeqsUpTo(_, _)
SeqsUpTo(S, n) ==
    IF n = 0 THEN {<<>>}
    ELSE LET shorter == SeqsUpTo(S, n - 1)
         IN shorter \cup {Append(q, x) : q \in shorter, x \in S}

ImageInputs ==
    {ArrayIn(d, n) : d \in 2..MaxNdim, n \in 0..1}
      \cup {ListIn(q) : q \in SeqsUpTo(2..MaxNdim, MaxImgs)}
      \cup {OtherIn}

Coords == 0..MaxCoord
ImgShape == <<MaxCoord + 1, MaxCoord + 1>>
KPOIs == {[keypoints |-> q, shape |-> ImgShape] : q \in SeqsUpTo(Coords \X Coords, 1)}

KeypointInputs == {KpsIn(q) : q \in SeqsUpTo(KPOIs, MaxKpImgs)} \cup {BadListIn, OtherIn}

\* the record of one call: what was called with what, the state before, and
\* what came of it
CallRecord(op, self, input, hk, pre, r) ==
    [op |-> op, self |-> self, input |-> input, hk |-> hk, pre |-> pre,
     status |-> r.status, ret |-> r.ret, calls |-> r.calls, hooks |-> r.hooks]

AugmentImages ==
    /\ Len(hist) < MaxCalls
    /\ \E self \in DOMAIN augs, images \in ImageInputs :
        LET pre == [rs |-> rs, augs |-> augs]
            r == augment_images(pre, self, images)
        IN /\ rs' = r.st.rs
           /\ augs' = r.st.augs
           /\ hist' = Append(hist, CallRecord("augment_images", self, images, "default", pre, r))
           /\ UNCHANGED pipeVars

AugmentImage ==
    /\ Len(hist) < MaxCalls
    /\ \E self \in DOMAIN augs, image \in 1..MaxNdim :
        LET pre == [rs |-> rs, augs |-> augs]
            r == augment_image(pre, self, image)
        IN /\ rs' = r.st.rs
           /\ augs' = r.st.augs
           /\ hist' = Append(hist, CallRecord("augment_image", self, image, "default", pre, r))
           /\ UNCHANGED pipeVars

AugmentKeypoints ==
    /\ Len(hist) < MaxCalls
    /\ \E self \in DOMAIN augs, kin \in KeypointInputs, hk \in HookSet :
        LET pre == [rs |-> rs, augs |-> augs]
            r == augment_keypoints(pre, self, kin, hk)
        IN /\ rs' = r.st.rs
           /\ augs' = r.st.augs
           /\ hist' = Append(hist, CallRecord("augment_keypoints", self, kin, hk, pre, r))
           /\ UNCHANGED pipeVars

\* the caller's one augmentor: any concrete class, activated or switched off
\* through its public `activated` attribute
InitCalls == InitHeap(1, CtorArgs, {"noop", "shift", "abstract"}, BOOLEAN) /\ hist = <<>> /\ NoPipeline

NextCalls == AugmentImages \/ AugmentImage \/ AugmentKeypoints

SpecCalls == InitCalls /\ [][NextCalls]_vars

\* C3: for a deterministic, activated instance, two augment_images calls in a
\* row on the same valid non-empty images each hand the transformation a
\* random-state value, the same one both times, and both return the same
\* output.
C3_AsStated ==
    (/\ Len(hist) = 2
     /\ hist[1].op = "augment_images" /\ hist[2].op = "augment_images"
     /\ hist[1].self = hist[2].self /\ hist[1].input = hist[2].input
     /\ ImagesValid(hist[1].input) = "ok" /\ LenOf(hist[1].input) > 0
     /\ hist[1].pre.augs[hist[1].self].deterministic
     /\ hist[1].pre.augs[hist[1].self].activated)
    => /\ hist[1].status = "ok" /\ hist[2].status = "ok"
       /\ Len(hist[1].calls) = 1 /\ Len(hist[2].calls) = 1
       /\ hist[1].calls[1].random_state = hist[2].calls[1].random_state
       /\ hist[1].ret = hist[2].ret

\* C4: for a deterministic, activated instance, when augment_keypoints (valid
\* non-empty keypoints, default hooks) directly follows augment_images (valid
\* non-empty images), the transformation of each call was handed a
\* random-state value and the two values are equal.
C4_AsStated ==
    (/\ Len(hist) = 2
     /\ hist[1].op = "augment_images" /\ hist[2].op = "augment_keypoints"
     /\ hist[1].self = hist[2].self /\ hist[2].hk = "default"
     /\ ImagesValid(hist[1].input) = "ok" /\ LenOf(hist[1].input) > 0
     /\ hist[2].input.kind = "kps" /\ Len(hist[2].input.items) > 0
     /\ hist[1].pre.augs[hist[1].self].deterministic
     /\ hist[1].pre.augs[hist[1].self].activated
     /\ hist[1].pre.augs[hist[1].self].xform # "abstract")
    => /\ Len(hist[1].calls) = 1 /\ Len(hist[2].calls) = 1
       /\ hist[2].calls[1].random_state = hist[1].calls[1].random_state

\* C5: augment_image on a 2-axis image returns a 2-axis image, and
\* augment_images on a valid list returns a list of images with the axis
\* counts of the input (the channel axis added to a 2-axis image is stripped
\* from exactly those images).
C5_AsStated ==
    /\ (Called("augment_image") /\ Last.input = 2) =>
          (Last.status = "ok" /\ Last.ret.kind = "image" /\ Last.ret.ndim = 2)
    /\ (Called("augment_images") /\ Last.input.kind = "list"
          /\ ImagesValid(Last.input) = "ok") =>
          (Last.status = "ok" /\ Last.ret.kind = "list"
             /\ Last.ret.items = Last.input.items)

----------------------------------------------------------------------------
(* augment_bounding_boxes *)

\* BoundingBox.to_keypoints(): the four corners of a box
to_keypoints(bb) == <<<<bb.x1, bb.y1>>, <<bb.x2, bb.y1>>, <<bb.x2, bb.y2>>, <<bb.x1, bb.y2>>>>

\* BoundingBox.copy(x1, y1, x2, y2): the box with new coordinates, its label kept
BoxCopy(bb, x1, y1, x2, y2) == [x1 |-> x1, y1 |-> y1, x2 |-> x2, y2 |-> y2, label |-> bb.label]

RECURSIVE AllCorners(_, _)
\* lines 432-434: the corners of the boxes of one image, from the k-th box on
AllCorners(boxes, k) ==
    IF k > Len(boxes) THEN <<>>
    ELSE to_keypoints(boxes[k]) \o AllCorners(boxes, k + 1)

\* lines 430-435: one KeyPointsOnImage per BoundingBoxesOnImage
BoxesToKeypoints(bbs) ==
    [i \in DOMAIN bbs |-> [keypoints |-> AllCorners(bbs[i].bounding_boxes, 1),
                           shape |-> bbs[i].shape]]

MinOf(S) == CHOOSE x \in S : \A y \in S : x <= y
MaxOf(S) == CHOOSE x \in S : \A y \in S : x >= y

\* the four keypoints kps[i*4:(i+1)*4] of box i (counted from 1)
BoxKps(kps, i) == [k \in 1..4 |-> kps[(i - 1) * 4 + k]]
Xs(q) == {q[k][1] : k \in DOMAIN q}
Ys(q) == {q[k][2] : k \in DOMAIN q}

\* lines 442-452: the box rebuilt from its four augmented corners; line 446
\* takes y2 as the max over kp.x
RebuildBox(orig, bb_kps) ==
    BoxCopy(orig, MinOf(Xs(bb_kps)), MinOf(Ys(bb_kps)), MaxOf(Xs(bb_kps)), MaxOf(Xs(bb_kps)))

\* augment_bounding_boxes(bounding_boxes_on_images, hooks=hk)
augment_bounding_boxes(st, self, bbs, hk) ==
    LET kps_ois == BoxesToKeypoints(bbs)
        r == augment_keypoints(st, self, KpsIn(kps_ois), hk)
        aug == r.ret.items
        results ==
            [i \in DOMAIN aug |->
                [bounding_boxes |->
                    [j \in 1..(Len(aug[i].keypoints) \div 4) |->
                        RebuildBox(bbs[i].bounding_boxes[j], BoxKps(aug[i].keypoints, j))],
                 shape |-> aug[i].shape]]
    IN IF r.status # "ok" THEN r
       ELSE [r EXCEPT !.ret = [kind |-> "bbs", items |-> results, kps_aug |-> aug]]

Labels == {"a", "b"}
Boxes == [x1 : Coords, y1 : Coords, x2 : Coords, y2 : Coords, label : Labels]
BBOIs == {[bounding_boxes |-> q, shape |-> ImgShape] : q \in SeqsUpTo(Boxes, MaxBoxes)}
BoxInputs == SeqsUpTo(BBOIs, MaxBoxImgs)

AugmentBoundingBoxes ==
    /\ Len(hist) < MaxBoxCalls
    /\ \E self \in DOMAIN augs, bbs \in BoxInputs, hk \in {"default", "off"} :
        LET pre == [rs |-> rs, augs |-> augs]
            r == augment_bounding_boxes(pre, self, bbs, hk)
        IN /\ rs' = r.st.rs
           /\ augs' = r.st.augs
           /\ hist' = Append(hist, CallRecord("augment_bounding_boxes", self, bbs, hk, pre, r))
           /\ UNCHANGED pipeVars

InitBoxes ==
    /\ InitHeap(1, CtorArgs, {"noop", "shift", "mirror", "transpose", "abstract"}, BOOLEAN)
    /\ hist = <<>> /\ NoPipeline

NextBoxes == AugmentBoundingBoxes

SpecBoxes == InitBoxes /\ [][NextBoxes]_vars

\* C8: every returned box is rebuilt from its 4 transformed corners as
\* x1 = min x, x2 = max x, y1 = min y, y2 = max y; each image keeps the
\* number and the order of its boxes, each with the label of the original
\* box at that position.
C8_AsStated ==
    (Called("augment_bounding_boxes") /\ Last.status = "ok") =>
        /\ Len(Last.ret.items) = Len(Last.input)
        /\ \A i \in DOMAIN Last.ret.items :
            LET got == Last.ret.items[i].bounding_boxes
                orig == Last.input[i].bounding_boxes
                kps == Last.ret.kps_aug[i].keypoints
            IN /\ Len(got) = Len(orig)
               /\ \A j \in DOMAIN got :
                    /\ got[j].x1 = MinOf(Xs(BoxKps(kps, j)))
                    /\ got[j].x2 = MaxOf(Xs(BoxKps(kps, j)))
                    /\ got[j].y1 = MinOf(Ys(BoxKps(kps, j)))
                    /\ got[j].y2 = MaxOf(Ys(BoxKps(kps, j)))
                    /\ got[j].label = orig[j].label

\* C9: when the corner keypoints come back unchanged (the augmentor is
\* switched off, or its transformation returns them as they are), every box
\* with x1 <= x2 and y1 <= y2 comes back with its original x1, y1, x2, y2.
C9_AsStated ==
    (/\ Called("augment_bounding_boxes") /\ Last.status = "ok"
     /\ Last.ret.kps_aug = BoxesToKeypoints(Last.input)) =>
        \A i \in DOMAIN Last.input :
            \A j \in DOMAIN Last.input[i].bounding_boxes :
                LET bb == Last.input[i].bounding_boxes[j]
                    got == Last.ret.items[i].bounding_boxes[j]
                IN (bb.x1 <= bb.x2 /\ bb.y1 <= bb.y2) =>
                     (got.x1 = bb.x1 /\ got.y1 = bb.y1 /\ got.x2 = bb.x2 /\ got.y2 = bb.y2)

----------------------------------------------------------------------------
(* Batch objects and the background pipeline (basebatch) *)

\* the values a Batch's data field takes: None, an index, the tuple
\* (index, data) and whatever the caller stored
NoData == [tag |-> "None"]
IntData(i) == [tag |-> "int", i |-> i]
TupleData(i, d) == [tag |-> "tuple", i |-> i, rest |-> d]
UserData(k) == [tag |-> "user", val |-> k]

\* Batch(images=None, keypoints=None, data=None)
NewBatch(images, keypoints, data) ==
    [images |-> images, keypoints |-> keypoints, data |-> data,
     images_aug |-> NoneVal, keypoints_aug |-> NoneVal]

\* BackgroundAugmentor's worker on one batch: the augmentor is applied to the
\* images and to the keypoints the batch holds, the results are attached to
\* the batch in place; a failure is kept to be surfaced to the consumer
WorkerAugment(st, self, b) ==
    LET skip(s) == [st |-> s, status |-> "ok", ret |-> NoneVal]
        ri == IF b.images.kind # "None" THEN augment_images(st, self, b.images)
              ELSE skip(st)
        rk == IF b.keypoints.kind # "None"
              THEN augment_keypoints(ri.st, self, b.keypoints, "default")
              ELSE skip(ri.st)
    IN IF ri.status # "ok" THEN [st |-> ri.st, status |-> ri.status, batch |-> b]
       ELSE IF rk.status # "ok" THEN [st |-> rk.st, status |-> rk.status, batch |-> b]
       ELSE [st |-> rk.st, status |-> "ok",
             batch |-> [b EXCEPT !.images_aug = ri.ret, !.keypoints_aug = rk.ret]]

\* BatchLoader's thread: the next batch of load_batches() goes into the
\* loader's queue, which blocks the thread while it is full
LoaderStep ==
    /\ loader.created /\ ~loader.terminated
    /\ loader.next <= Len(gen.norm)
    /\ Len(loader.queue) < QueueSize
    /\ loader' = [loader EXCEPT !.queue = Append(@, [id |-> gen.norm[loader.next],
                                                     pos |-> loader.next]),
                                !.next = @ + 1]
    /\ UNCHANGED <<rs, augs, hist, batches, bobjs, gen, bg, out>>

\* BackgroundAugmentor's worker: it augments the batch at the head of the
\* loader's queue and queues the result, in the order of arrival, or passes
\* on the end of the stream once the loader has none left
WorkerStep ==
    /\ bg.created /\ ~bg.terminated /\ ~bg.finished
    /\ \/ /\ loader.queue # <<>>
          /\ Len(bg.queue) < QueueSize
          /\ LET item == Head(loader.queue)
                 r == WorkerAugment([rs |-> rs, augs |-> augs], gen.self, bobjs[item.id])
             IN /\ rs' = r.st.rs
                /\ bobjs' = [bobjs EXCEPT ![item.id] = r.batch]
                /\ bg' = [bg EXCEPT !.queue = Append(@, [id |-> item.id, pos |-> item.pos,
                                                         status |-> r.status])]
          /\ loader' = [loader EXCEPT !.queue = Tail(@)]
          /\ UNCHANGED <<augs, hist, batches, gen, out>>
       \/ /\ loader.queue = <<>>
          /\ loader.next > Len(gen.norm)
          /\ bg' = [bg EXCEPT !.finished = TRUE]
          /\ UNCHANGED <<rs, augs, hist, batches, bobjs, gen, loader, out>>

----------------------------------------------------------------------------
(* augment_batches *)

\* a check of the argument that only looks at its length
BatchesValidLenOnly(bs) == do_assert(Len(bs.items) > 0)

\* lines 110-111: the two assertions on the argument
BatchesValid(bs) ==
    IF do_assert(bs.islist) # "ok" THEN "AssertionError"
    ELSE do_assert(Len(bs.items) > 0)

\* lines 118-143: one batch is normalized; i is its index, counted from 0
NormalizeOne(acc, b, i) ==
    LET add(batch, dt) ==
            [acc EXCEPT !.bobjs = Append(@, batch),
                        !.norm = Append(@, Len(acc.bobjs) + 1),
                        !.dts = Append(@, dt)]
    IN IF b.kind = "Batch"
       THEN [acc EXCEPT !.bobjs[b.ref].data = TupleData(i, @),
                        !.norm = Append(@, b.ref),
                        !.dts = Append(@, "IMG_AUG_BATCH")]
       ELSE IF b.kind = "array"
       THEN IF do_assert(b.ndim \in {3, 4}) # "ok"
            THEN [acc EXCEPT !.status = "AssertionError"]
            ELSE add(NewBatch(b, NoneVal, IntData(i)), "NP_ARRAY")
       ELSE IF b.kind = "list"
       THEN IF Len(b.items) = 0
            THEN add(NewBatch(NoneVal, NoneVal, NoData), "EMPTY_LIST")
            ELSE add(NewBatch(b, NoneVal, IntData(i)), "NP_ARRAYS")
       ELSE IF b.kind = "kps"
       THEN add(NewBatch(NoneVal, b, IntData(i)), "KPS_ON_IMAGE")
       ELSE [acc EXCEPT !.status = "Exception"]

RECURSIVE Normalize(_, _, _)
\* lines 115-143: the loop over the batches, from the k-th on
Normalize(items, k, acc) ==
    IF k > Len(items) THEN acc
    ELSE LET step == NormalizeOne(acc, items[k], k - 1)
         IN IF step.status # "ok" THEN step ELSE Normalize(items, k + 1, step)

\* lines 145-163: unnormalize_batch(batch_aug); id names the Batch object
unnormalize_batch(objs, id, dts) ==
    LET d == objs[id].data
        i == IF d.tag = "tuple" THEN IntData(d.i) ELSE d
        dt_orig == dts[i.i + 1]
        done(val, o) == [status |-> "ok", val |-> val, bobjs |-> o]
    IN IF i.tag # "int" THEN [status |-> "TypeError", val |-> NoneVal, bobjs |-> objs]
       ELSE IF dt_orig = "IMG_AUG_BATCH"
       THEN done([kind |-> "Batch", ref |-> id], [objs EXCEPT ![id].data = d.rest])
       ELSE IF dt_orig = "NP_ARRAY" THEN done(objs[id].images_aug, objs)
       ELSE IF dt_orig = "EMPTY_LIST" THEN done(ListIn(<<>>), objs)
       ELSE IF dt_orig = "NP_ARRAYS" THEN done(objs[id].images_aug, objs)
       ELSE done(objs[id].keypoints_aug, objs)

\* the consumer's first next(): lines 110-170 run, up to the first get_batch
GenStart ==
    /\ gen.pc = "created"
    /\ LET valid == BatchesValid(batches)
           n == Normalize(batches.items, 1,
                          [bobjs |-> bobjs, norm |-> <<>>, dts |-> <<>>, status |-> "ok"])
       IN IF valid # "ok"
          THEN /\ gen' = [gen EXCEPT !.pc = "raised", !.error = valid, !.where = "arguments"]
               /\ UNCHANGED <<bobjs, loader, bg>>
          ELSE IF n.status # "ok"
          THEN /\ gen' = [gen EXCEPT !.pc = "raised", !.error = n.status,
                                     !.where = "normalize"]
               /\ bobjs' = n.bobjs
               /\ UNCHANGED <<loader, bg>>
          ELSE /\ gen' = [gen EXCEPT !.pc = "waiting", !.norm = n.norm, !.dts = n.dts]
               /\ bobjs' = n.bobjs
               /\ loader' = [created |-> TRUE, terminated |-> FALSE, next |-> 1,
                             queue |-> <<>>]
               /\ bg' = [created |-> TRUE, terminated |-> FALSE, finished |-> FALSE,
                         queue |-> <<>>]
    /\ UNCHANGED <<rs, augs, hist, batches, out>>

\* lines 171-179: get_batch() returns; its result is unnormalized and yielded,
\* or it is None and both parts of the pipeline are terminated, or it
\* surfaces the failure of the worker
GenGetBatch ==
    /\ gen.pc = "waiting"
    /\ IF bg.queue # <<>>
       THEN LET item == Head(bg.queue)
                u == unnormalize_batch(bobjs, item.id, gen.dts)
            IN /\ bg' = [bg EXCEPT !.queue = Tail(@)]
               /\ IF item.status # "ok"
                  THEN /\ gen' = [gen EXCEPT !.pc = "raised", !.error = item.status,
                                             !.where = "get_batch"]
                       /\ UNCHANGED <<bobjs, out>>
                  ELSE IF u.status # "ok"
                  THEN /\ gen' = [gen EXCEPT !.pc = "raised", !.error = u.status,
                                             !.where = "unnormalize_batch"]
                       /\ UNCHANGED <<bobjs, out>>
                  ELSE /\ gen' = [gen EXCEPT !.pc = "yielded"]
                       /\ bobjs' = u.bobjs
                       /\ out' = Append(out, [val |-> u.val, from |-> item.pos])
               /\ UNCHANGED loader
       ELSE /\ bg.finished
            /\ gen' = [gen EXCEPT !.pc = "done"]
            /\ loader' = [loader EXCEPT !.terminated = TRUE]
            /\ bg' = [bg EXCEPT !.terminated = TRUE]
            /\ UNCHANGED <<bobjs, out>>
    /\ UNCHANGED <<rs, augs, hist, batches>>

\* the consumer asks for the next result: the generator resumes after its
\* yield and calls get_batch again
GenResume ==
    /\ gen.pc = "yielded"
    /\ gen' = [gen EXCEPT !.pc = "waiting"]
    /\ UNCHANGED <<rs, augs, hist, batches, bobjs, loader, bg, out>>

\* the consumer abandons the sequence: the generator is closed where it
\* stands, before its first line or at its yield, and runs no further line
GenClose ==
    /\ gen.pc \in {"created", "yielded"}
    /\ gen' = [gen EXCEPT !.pc = "closed"]
    /\ UNCHANGED <<rs, augs, hist, batches, bobjs, loader, bg, out>>

\* the batches a caller hands over
ItemKinds == {"BatchImg", "BatchKp", "array", "badarray", "list", "kps", "emptylist",
              "other"}

OneKeypoints == [keypoints |-> <<<<0, MaxCoord>>>>, shape |-> ImgShape]

\* the Batch object the caller built for position k
CallerBatch(kind, k) ==
    IF kind = "BatchImg" THEN NewBatch(ListIn(<<3>>), NoneVal, UserData(k))
    ELSE NewBatch(NoneVal, KpsIn(<<OneKeypoints>>), UserData(k))

ItemOf(kind, ref) ==
    IF kind \in {"BatchImg", "BatchKp"} THEN [kind |-> "Batch", ref |-> ref]
    ELSE IF kind = "array" THEN ArrayIn(4, 1)
    ELSE IF kind = "badarray" THEN ArrayIn(2, 1)
    ELSE IF kind = "list" THEN ListIn(<<3>>)
    ELSE IF kind = "kps" THEN KpsIn(<<OneKeypoints>>)
    ELSE IF kind = "emptylist" THEN ListIn(<<>>)
    ELSE OtherIn

RECURSIVE BuildBatches(_, _, _)
BuildBatches(kinds, k, acc) ==
    IF k > Len(kinds) THEN acc
    ELSE IF kinds[k] \in {"BatchImg", "BatchKp"}
    THEN BuildBatches(kinds, k + 1,
            [items |-> Append(acc.items, ItemOf(kinds[k], Len(acc.objs) + 1)),
             objs |-> Append(acc.objs, CallerBatch(kinds[k], k))])
    ELSE BuildBatches(kinds, k + 1,
            [acc EXCEPT !.items = Append(@, ItemOf(kinds[k], 0))])

\* augment_batches(batches) has been called on augmentor 1: the generator
\* exists and none of its lines has run
InitBatches ==
    /\ InitHeap(1, CtorArgs, {"noop"}, BOOLEAN)
    /\ hist = <<>>
    /\ \E islist \in BOOLEAN, kinds \in SeqsUpTo(ItemKinds, MaxBatches) :
        LET b == BuildBatches(kinds, 1, [items |-> <<>>, objs |-> <<>>])
        IN /\ batches = [islist |-> islist, items |-> b.items, objs0 |-> b.objs]
           /\ bobjs = b.objs
    /\ gen = [pc |-> "created", self |-> 1, norm |-> <<>>, dts |-> <<>>,
              error |-> "none", where |-> "none"]
    /\ loader = [created |-> FALSE]
    /\ bg = [created |-> FALSE]
    /\ out = <<>>

NextBatches ==
    GenStart \/ GenGetBatch \/ GenResume \/ GenClose \/ LoaderStep \/ WorkerStep

SpecBatches == InitBatches /\ [][NextBatches]_vars

\* a batch in one of the representations augment_batches accepts
Supported(b) ==
    \/ b.kind \in {"Batch", "list", "kps"}
    \/ b.kind = "array" /\ b.ndim \in {3, 4}

\* a non-empty list of batches in supported representations
SupportedBatches ==
    /\ batches.islist /\ Len(batches.items) > 0
    /\ \A k \in DOMAIN batches.items : Supported(batches.items[k])

\* the result has the representation of the input batch it comes from
SameRepresentation(res, b) ==
    IF b.kind = "Batch" THEN res = b
    ELSE IF b.kind = "list" /\ Len(b.items) = 0 THEN res = ListIn(<<>>)
    ELSE res.kind = b.kind

\* C1: for a non-empty list of batches in supported representations, every
\* result has the representation of the batch it was derived from (the Batch
\* itself, images for an array or a list of arrays, keypoints for a list of
\* KeyPointsOnImage, an empty list for an empty list), and turning a batch of
\* the pipeline back into that representation does not fail.
C1_AsStated ==
    SupportedBatches =>
        /\ \A k \in DOMAIN out : SameRepresentation(out[k].val, batches.items[out[k].from])
        /\ ~(gen.pc = "raised" /\ gen.where = "unnormalize_batch")

\* C2: for a non-empty list of n batches in supported representations, the
\* k-th result comes from the k-th batch, the sequence does not end before
\* every batch has had its one result, and it completes after the n-th.
C2_AsStated ==
    SupportedBatches =>
        /\ \A k \in DOMAIN out : out[k].from = k
        /\ Len(out) <= Len(batches.items)
        /\ gen.pc = "done" => Len(out) = Len(batches.items)
        /\ gen.pc # "raised"

\* C10: given an empty list or something that is no list, augment_batches
\* produces no result, modifies no Batch of the caller and creates neither
\* the batch loader nor the background augmentor; once its first line has
\* run, it has failed with AssertionError.
C10_InvalidArgument ==
    (~batches.islist \/ Len(batches.items) = 0) =>
        /\ out = <<>>
        /\ bobjs = batches.objs0
        /\ ~loader.created /\ ~bg.created
        /\ gen.pc \in {"created", "closed", "raised"}
        /\ gen.pc = "raised" => gen.error = "AssertionError"

\* a tuple holding a Batch of the caller was handed over and the first
\* next() has raised AssertionError
C10_Witness ==
    /\ ~batches.islist /\ Len(batches.items) > 0
    /\ batches.items[1].kind = "Batch"
    /\ gen.pc = "raised" /\ gen.error = "AssertionError"

\* the sequence of results has ended: exhausted, abandoned or raised
SequenceEnded == gen.pc \in {"done", "closed", "raised"}

\* C11: whenever the sequence produced by augment_batches has ended (all
\* batches consumed, abandoned by the consumer after some results, or a
\* result raised), terminate has been called on the batch loader and on the
\* background augmentor the call created.
C11_AsStated ==
    (SequenceEnded /\ loader.created /\ bg.created) =>
        (loader.terminated /\ bg.terminated)

\* C13: every Batch object yielded carries the data value the caller put in
\* it, and once the sequence has completed or has been abandoned, the data
\* field of every Batch object of the caller, yielded or not, is the value
\* the caller set and not the (index, data) tag.
C13_AsStated ==
    /\ \A k \in DOMAIN out :
         out[k].val.kind = "Batch" =>
            bobjs[out[k].val.ref].data = batches.objs0[out[k].val.ref].data
    /\ gen.pc \in {"done", "closed"} =>
         \A r \in DOMAIN batches.objs0 : bobjs[r].data = batches.objs0[r].data

----------------------------------------------------------------------------
(* BackgroundAugmentor driven by its holder: get_batch and terminate *)

\* the end-of-stream sentinel of get_batch
Sentinel == [val |-> NoneVal, from |-> 0]

\* a get_batch that is woken by a result or by the end of the stream only
BgGetBatchReadyNoWake(b) == b.queue # <<>> \/ b.finished

\* get_batch() blocks until a result, the end of the stream or termination
BgGetBatchReady(b) == b.terminated \/ b.queue # <<>> \/ b.finished

\* what get_batch() returns once it is woken: the sentinel after terminate()
\* or at the end of the stream, else the oldest result
BgGetBatchResult(b) ==
    IF b.terminated \/ b.queue = <<>> THEN Sentinel
    ELSE [val |-> [kind |-> "Batch", ref |-> Head(b.queue).id], from |-> Head(b.queue).pos]

\* the holder calls get_batch()
BgGetBatchCall ==
    /\ gen.pc = "idle" /\ gen.gets < MaxGets
    /\ gen' = [gen EXCEPT !.pc = "in_get_batch", !.gets = @ + 1,
                          !.after_terminate = bg.terminated]
    /\ UNCHANGED <<rs, augs, hist, batches, bobjs, loader, bg, out>>

\* get_batch() returns to the holder
BgGetBatchReturn ==
    /\ gen.pc = "in_get_batch"
    /\ BgGetBatchReady(bg)
    /\ out' = Append(out, [res |-> BgGetBatchResult(bg),
                           after_terminate |-> gen.after_terminate])
    /\ bg' = IF ~bg.terminated /\ bg.queue # <<>> THEN [bg EXCEPT !.queue = Tail(@)]
             ELSE bg
    /\ gen' = [gen EXCEPT !.pc = "idle"]
    /\ UNCHANGED <<rs, augs, hist, batches, bobjs, loader>>

\* terminate(): the worker accepts and produces no further work (WorkerStep
\* is disabled from here on) and a blocked get_batch is woken
BgTerminate ==
    /\ bg.created /\ bg.terminate_calls < MaxTerminates
    /\ bg' = [bg EXCEPT !.terminated = TRUE, !.terminate_calls = @ + 1]
    /\ UNCHANGED <<rs, augs, hist, batches, bobjs, gen, loader, out>>

\* the pipeline as lines 169-170 build it over normalized batches, in the
\* hands of a holder that has called neither get_batch nor terminate
InitPipeline ==
    /\ InitHeap(1, {NoneArg}, {"noop"}, {TRUE})
    /\ hist = <<>>
    /\ \E kinds \in SeqsUpTo({"BatchKp", "kps"}, MaxBatches) :
        LET b == BuildBatches(kinds, 1, [items |-> <<>>, objs |-> <<>>])
            n == Normalize(b.items, 1,
                           [bobjs |-> b.objs, norm |-> <<>>, dts |-> <<>>, status |-> "ok"])
        IN /\ batches = [islist |-> TRUE, items |-> b.items, objs0 |-> b.objs]
           /\ bobjs = n.bobjs
           /\ gen = [pc |-> "idle", self |-> 1, norm |-> n.norm, dts |-> n.dts,
                     gets |-> 0, after_terminate |-> FALSE]
    /\ loader = [created |-> TRUE, terminated |-> FALSE, next |-> 1, queue |-> <<>>]
    /\ bg = [created |-> TRUE, terminated |-> FALSE, finished |-> FALSE, queue |-> <<>>,
             terminate_calls |-> 0]
    /\ out = <<>>

NextPipeline ==
    LoaderStep \/ WorkerStep \/ BgGetBatchCall \/ BgGetBatchReturn \/ BgTerminate

\* the threads of the pipeline and the holder's call all keep running
SpecPipeline ==
    /\ InitPipeline /\ [][NextPipeline]_vars
    /\ WF_vars(LoaderStep) /\ WF_vars(WorkerStep) /\ WF_vars(BgGetBatchReturn)

\* a second terminate() changes nothing but the count of the calls
SecondTerminateNoEffect ==
    (bg.terminated /\ bg'.terminate_calls # bg.terminate_calls) =>
        /\ bg' = [bg EXCEPT !.terminate_calls = @ + 1]
        /\ UNCHANGED <<rs, augs, hist, batches, bobjs, gen, loader, out>>

----------------------------------------------------------------------------
(* copy, deepcopy and the calls made on the original and on the clone *)

RECURSIVE DeepcopyFrom(_, _, _), DeepcopyChildren(_, _, _, _)
\* copy.deepcopy of augmentor a: a new instance, a new generator object with
\* the value of a's (one copy per generator object, kept in memo) and deep
\* copies of the children
DeepcopyFrom(st, a, memo) ==
    LET old == st.augs[a].random_state
        seen == old \in DOMAIN memo
        h == IF seen THEN st.rs ELSE new_random_state(st.rs, copy_random_state(st.rs, old))
        m == IF seen THEN memo ELSE memo @@ (old :> Len(h))
        kids == DeepcopyChildren([rs |-> h, augs |-> st.augs], st.augs[a].children, 1, m)
        clone == [st.augs[a] EXCEPT !.random_state = m[old], !.children = kids.ids]
    IN [st |-> [rs |-> kids.st.rs, augs |-> Append(kids.st.augs, clone)],
        memo |-> kids.memo, id |-> Len(kids.st.augs) + 1]

\* the deep copies of the children, from the k-th on
DeepcopyChildren(st, kids, k, memo) ==
    IF k > Len(kids) THEN [st |-> st, memo |-> memo, ids |-> <<>>]
    ELSE LET c == DeepcopyFrom(st, kids[k], memo)
             rest == DeepcopyChildren(c.st, kids, k + 1, c.memo)
         IN [st |-> rest.st, memo |-> rest.memo, ids |-> <<c.id>> \o rest.ids]

\* deepcopy(): copy.deepcopy(self)
deepcopy(st, self) == DeepcopyFrom(st, self, <<>>).st

\* one copy() or deepcopy() call on one of the caller's augmentors
CopyCall ==
    /\ hist = <<>>
    /\ \E self \in DOMAIN augs, deep \in BOOLEAN :
        LET pre == [rs |-> rs, augs |-> augs]
            r == IF deep THEN deepcopy(pre, self) ELSE copy(pre, self)
        IN /\ rs' = r.rs
           /\ augs' = r.augs
           /\ hist' = <<[op |-> IF deep THEN "deepcopy" ELSE "copy", self |-> self,
                         pre |-> pre, clone |-> Len(r.augs)]>>
           /\ UNCHANGED pipeVars

\* the original and its clone
Pair == {hist[1].self, hist[1].clone}

\* one augment_keypoints call on the original or on the clone
CloneAugmentKeypoints ==
    /\ Len(hist) = 1
    /\ \E self \in Pair, kin \in KeypointInputs, hk \in HookSet :
        LET pre == [rs |-> rs, augs |-> augs]
            r == augment_keypoints(pre, self, kin, hk)
        IN /\ rs' = r.st.rs
           /\ augs' = r.st.augs
           /\ hist' = Append(hist, CallRecord("augment_keypoints", self, kin, hk, pre, r))
           /\ UNCHANGED pipeVars

\* one augment_images call on the original or on the clone
CloneAugmentImages ==
    /\ Len(hist) = 1
    /\ \E self \in Pair, images \in ImageInputs :
        LET pre == [rs |-> rs, augs |-> augs]
            r == augment_images(pre, self, images)
        IN /\ rs' = r.st.rs
           /\ augs' = r.st.augs
           /\ hist' = Append(hist, CallRecord("augment_images", self, images, "default", pre, r))
           /\ UNCHANGED pipeVars

\* a parent and its child, as their constructors leave them
InitCopy == InitHeap(NAugs, {NoneArg, IntArg(0)}, {"noop"}, {TRUE}) /\ hist = <<>> /\ NoPipeline

NextCopy == CopyCall \/ CloneAugmentKeypoints \/ CloneAugmentImages

SpecCopy == InitCopy /\ [][NextCopy]_vars

\* the value of the generator augmentor a holds, in heap pair st
StateOf(st, a) == st.rs[st.augs[a].random_state]

\* C14: after copy() or deepcopy(), an augmentation call on the clone leaves
\* the random-state value of the original as it was, and a call on the
\* original leaves the clone's as it was.
C14_AsStated ==
    Len(hist) = 2 =>
        LET now == [rs |-> rs, augs |-> augs]
            other == CHOOSE a \in Pair : a # Last.self
        IN StateOf(now, other) = StateOf(Last.pre, other)

----------------------------------------------------------------------------
(* The contract of one augmentation call *)

\* images the contract of augment_images rejects: an array whose axis count
\* is not 3 or 4, a list holding an image whose axis count is not 2 or 3, a
\* value that is neither
RejectedImages(images) ==
    \/ images.kind = "array" /\ images.ndim \notin {3, 4}
    \/ images.kind = "list" /\ \E k \in DOMAIN images.items : images.items[k] \notin {2, 3}
    \/ images.kind = "other"

\* the failures raised by the core itself, not by a transformation or a hook
CoreFailures == {"AssertionError", "Exception", "TypeError"}

\* C15: augment_images fails without invoking the transformation on an array
\* whose axis count is not 3 or 4, on a list holding an image whose axis
\* count is not 2 or 3 and on a value that is neither; augment_image fails
\* unless the image has 2 or 3 axes; on every other input neither call fails
\* in the core itself.
C15_AsStated ==
    /\ Called("augment_images") =>
         IF RejectedImages(Last.input)
         THEN Last.status # "ok" /\ Last.calls = <<>>
         ELSE Last.status \notin CoreFailures
    /\ Called("augment_image") =>
         IF Last.input \notin {2, 3}
         THEN Last.status # "ok" /\ Last.calls = <<>>
         ELSE Last.status \notin CoreFailures

\* the first public call on the caller's augmentor
FirstAugmentImages == hist = <<>> /\ AugmentImages
FirstAugmentImage == hist = <<>> /\ AugmentImage
FirstAugmentKeypoints == hist = <<>> /\ AugmentKeypoints

NextOneCall == FirstAugmentImages \/ FirstAugmentImage \/ FirstAugmentKeypoints

SpecOneCall == InitCalls /\ [][NextOneCall]_vars

\* C16: for a deterministic instance, once augment_images or
\* augment_keypoints has returned, the instance holds the random-state
\* object it held before the call and that object's value is the value
\* before the call, whatever the input and whatever the hooks did.
C16_Restored ==
    (/\ Len(hist) > 0 /\ Last.op \in {"augment_images", "augment_keypoints"}
     /\ Last.status = "ok"
     /\ Last.pre.augs[Last.self].deterministic) =>
        /\ augs[Last.self].random_state = Last.pre.augs[Last.self].random_state
        /\ StateOf([rs |-> rs, augs |-> augs], Last.self) = StateOf(Last.pre, Last.self)

\* augment_keypoints on a deterministic instance has run the transformation
\* and has returned
C16_Witness ==
    /\ Called("augment_keypoints") /\ Last.status = "ok"
    /\ Last.pre.augs[Last.self].deterministic
    /\ Len(Last.calls) = 1

\* call k of the history is a call of op with default hooks on a valid,
\* non-empty input, made on a non-deterministic, activated instance whose
\* class implements the transformation
PlainCall(k, op) ==
    /\ hist[k].op = op /\ hist[k].hk = "default"
    /\ IF op = "augment_images"
       THEN ~RejectedImages(hist[k].input) /\ LenOf(hist[k].input) > 0
       ELSE hist[k].input.kind = "kps" /\ Len(hist[k].input.items) > 0
    /\ ~hist[k].pre.augs[hist[k].self].deterministic
    /\ hist[k].pre.augs[hist[k].self].activated
    /\ hist[k].pre.augs[hist[k].self].xform # "abstract"

\* C17: for a non-deterministic, activated instance and non-empty input, a
\* call of augment_images (of augment_keypoints) hands the transformation a
\* random-state value and then advances the stored random-state, so the next
\* such call on the instance hands over a different value.
C17_AsStated ==
    \A op \in {"augment_images", "augment_keypoints"} :
        (Len(hist) = 2 /\ PlainCall(1, op) /\ PlainCall(2, op)
           /\ hist[1].self = hist[2].self) =>
            /\ Len(hist[1].calls) = 1 /\ Len(hist[2].calls) = 1
            /\ StateOf(hist[2].pre, hist[2].self) # StateOf(hist[1].pre, hist[1].self)
            /\ hist[2].calls[1].random_state # hist[1].calls[1].random_state

\* the hooks one call invoked, in the order of their invocation
HookNames(c) == [k \in DOMAIN c.hooks |-> c.hooks[k].hook]

\* the hooks of call c let the instance's own flag decide, or say yes
LetsRun(c) ==
    \/ c.hk = "on"
    \/ c.hk = "default" /\ c.pre.augs[c.self].activated

\* C18: a call of augment_images or of augment_keypoints that returns has
\* invoked preprocess once, then is_activated once with the instance's
\* activated flag as default, then the transformation at most once, and only
\* if activated and the input is non-empty, then postprocess once, also when
\* the transformation was skipped.
C18_AsStated ==
    (/\ Len(hist) > 0 /\ Last.op \in {"augment_images", "augment_keypoints"}
     /\ Last.status = "ok") =>
        /\ HookNames(Last) = <<"preprocess", "is_activated", "postprocess">>
        /\ Last.hooks[2].default = Last.pre.augs[Last.self].activated
        /\ Len(Last.calls) <= 1
        /\ Last.calls # <<>> => (LetsRun(Last) /\ LenOf(Last.input) > 0)

\* the image copies as the contract normalizes them: every image has its
\* channel axis
NormalizedImages(images) ==
    IF images.kind = "array" THEN [images EXCEPT !.ndim = 4]
    ELSE [images EXCEPT !.items = [k \in DOMAIN images.items |-> 3]]

\* C19: augment_images, activated and with a non-empty valid input, calls
\* _augment_images once with the normalized image copies and a copy of the
\* instance's random-state; augment_keypoints, activated and with a
\* non-empty input, calls _augment_keypoints once, and never
\* _augment_images, with the copied keypoints and a copy of the instance's
\* random-state.
C19_AsStated ==
    /\ (Called("augment_images") /\ LetsRun(Last)
          /\ ~RejectedImages(Last.input) /\ LenOf(Last.input) > 0) =>
            /\ Len(Last.calls) = 1
            /\ Last.calls[1].fn = "_augment_images"
            /\ Last.calls[1].data = NormalizedImages(Last.input)
            /\ Last.calls[1].random_state = StateOf(Last.pre, Last.self)
    /\ (Called("augment_keypoints") /\ LetsRun(Last)
          /\ Last.input.kind = "kps" /\ Len(Last.input.items) > 0) =>
            /\ Len(Last.calls) = 1
            /\ Last.calls[1].fn = "_augment_keypoints"
            /\ Last.calls[1].data = KpsDeepcopy(Last.input)
            /\ Last.calls[1].random_state = StateOf(Last.pre, Last.self)

\* C20: for a 3-axis array (N,H,W) given to augment_images, the array handed
\* to every hook and to the transformation has 4 axes, and the call returns
\* an array of 3 axes.
C20_AsStated ==
    (Called("augment_images") /\ Last.input.kind = "array" /\ Last.input.ndim = 3) =>
        /\ Last.hooks # <<>>
        /\ \A k \in DOMAIN Last.hooks :
             Last.hooks[k].data.kind = "array" /\ Last.hooks[k].data.ndim = 4
        /\ \A k \in DOMAIN Last.calls :
             Last.calls[k].data.kind = "array" /\ Last.calls[k].data.ndim = 4
        /\ Last.status = "ok" => (Last.ret.kind = "array" /\ Last.ret.ndim = 3)

----------------------------------------------------------------------------
(* Several constructed augmentors and one call on any of them *)

\* a few inputs of each kind: empty, one element, invalid
FewKeypointInputs == {KpsIn(<<>>), KpsIn(<<OneKeypoints>>), BadListIn}
FewImageInputs == {ListIn(<<>>), ListIn(<<2>>), OtherIn}

\* one augment_keypoints call on any of the caller's augmentors
AnyAugmentKeypoints ==
    /\ hist = <<>>
    /\ \E self \in DOMAIN augs, kin \in FewKeypointInputs, hk \in HookSet :
        LET pre == [rs |-> rs, augs |-> augs]
            r == augment_keypoints(pre, self, kin, hk)
        IN /\ rs' = r.st.rs
           /\ augs' = r.st.augs
           /\ hist' = Append(hist, CallRecord("augment_keypoints", self, kin, hk, pre, r))
           /\ UNCHANGED pipeVars

\* one augment_images call on any of the caller's augmentors
AnyAugmentImages ==
    /\ hist = <<>>
    /\ \E self \in DOMAIN augs, images \in FewImageInputs :
        LET pre == [rs |-> rs, augs |-> augs]
            r == augment_images(pre, self, images)
        IN /\ rs' = r.st.rs
           /\ augs' = r.st.augs
           /\ hist' = Append(hist, CallRecord("augment_images", self, images, "default", pre, r))
           /\ UNCHANGED pipeVars

\* augmentors as their constructors leave them: random_state is None, an int
\* seed or a RandomState instance (here the default generator itself)
InitOwners ==
    /\ InitHeap(NAugs, {NoneArg, IntArg(0), InstArg(current_random_state)}, {"noop"}, {TRUE})
    /\ hist = <<>> /\ NoPipeline

NextOwners == AnyAugmentKeypoints \/ AnyAugmentImages

SpecOwners == InitOwners /\ [][NextOwners]_vars

\* C21 as stated: no augmentation call on one constructed instance changes
\* the random-state value held by another constructed instance, also for
\* instances constructed with no random_state and deterministic=False.
C21_AsStated ==
    Len(hist) = 1 =>
        \A b \in DOMAIN augs \ {Last.self} :
            StateOf([rs |-> rs, augs |-> augs], b) = StateOf(Last.pre, b)

\* C21 (amended): an augmentation call on one constructed instance changes
\* the value of no random-state object but the one that instance holds, so
\* it leaves the value held by every instance that holds another object
\* unchanged; it changes no instance's fields.
C21_OwnGenerator ==
    Len(hist) = 1 =>
        LET mine == Last.pre.augs[Last.self].random_state
        IN /\ augs = Last.pre.augs
           /\ DOMAIN rs = DOMAIN Last.pre.rs
           /\ \A id \in DOMAIN rs : id # mine => rs[id] = Last.pre.rs[id]
           /\ \A b \in DOMAIN augs \ {Last.self} :
                augs[b].random_state # mine =>
                    StateOf([rs |-> rs, augs |-> augs], b) = StateOf(Last.pre, b)

\* augment_keypoints has advanced the generator of a seeded instance while
\* another instance holds the default generator
C21_Witness ==
    /\ Called("augment_keypoints") /\ Last.status = "ok" /\ Len(Last.calls) = 1
    /\ augs[Last.self].random_state # current_random_state
    /\ StateOf([rs |-> rs, augs |-> augs], Last.self) # StateOf(Last.pre, Last.self)
    /\ \E b \in DOMAIN augs \ {Last.self} : augs[b].random_state = current_random_state

\* call c of augment_keypoints got past its hooks' preprocess and
\* is_activated, and the transformation was not to run: the activator's
\* answer was false or the list of keypoints is empty
SkipsTransformation(c) ==
    /\ c.op = "augment_keypoints" /\ c.input.kind = "kps"
    /\ c.hk \notin {"pre_raises", "act_raises"}
    /\ \/ ~HookIsActivated(c.hk, c.pre.augs[c.self].activated).val
       \/ Len(c.input.items) = 0

\* C22: when is_activated yields false, or the list of keypoints is empty,
\* augment_keypoints invokes no transformation, hands postprocess the
\* preprocessed deep copies and returns what postprocess returns, objects of
\* its own with the caller's values and not the caller's objects, and leaves
\* the instance's random-state object and its value as they were, for
\* deterministic and non-deterministic instances alike.
C22_Skipped ==
    (Len(hist) = 1 /\ SkipsTransformation(Last)) =>
        /\ Last.calls = <<>>
        /\ HookNames(Last) = <<"preprocess", "is_activated", "postprocess">>
        /\ Last.hooks[3].data = KpsDeepcopy(Last.input)
        /\ Last.hooks[3].data.copied
        /\ Last.status = "ok" => Last.ret = Last.hooks[3].data
        /\ Last.status # "ok" => Last.hk = "post_raises"
        /\ augs = Last.pre.augs
        /\ rs = Last.pre.rs

\* a switched-off, non-deterministic instance has returned copies of a
\* non-empty list of keypoints
C22_Witness ==
    /\ Len(hist) = 1 /\ SkipsTransformation(Last) /\ Last.status = "ok"
    /\ ~Last.pre.augs[Last.self].deterministic
    /\ ~Last.pre.augs[Last.self].activated
    /\ Len(Last.input.items) > 0 /\ Last.input.items[1].keypoints # <<>>
    /\ Last.ret.copied /\ Last.ret.items = Last.input.items

\* C23: if input validation, a hook or the transformation raises during
\* augment_keypoints, the instance's stored random-state value is its value
\* before the call, for deterministic and non-deterministic instances alike.
C23_AsStated ==
    (Called("augment_keypoints") /\ Last.status # "ok") =>
        /\ augs[Last.self].random_state = Last.pre.augs[Last.self].random_state
        /\ StateOf([rs |-> rs, augs |-> augs], Last.self) = StateOf(Last.pre, Last.self)

====
